---- MODULE Spec2Model ----
(***************************************************************************)
(* Model of the roc-syntax MCP server (src/src/index.ts): the document     *)
(* loader, the section parser, the topic table, the topic resolver, the    *)
(* section selector and the three tool handlers.  Text is modelled by TLA+ *)
(* strings; every string function of the source (split, includes,          *)
(* startsWith, toLowerCase, join, RegExp.test) is computed character by    *)
(* character.                                                              *)
(***************************************************************************)
EXTENDS Integers, Sequences, FiniteSets, TLC

VARIABLES file, req, resp, log, parsed

vars == <<file, req, resp, log, parsed>>

(***************************************************************************)
(* String primitives of the JavaScript runtime used by the source.         *)
(***************************************************************************)

\* s[i], 1-based, as a one-character string
CharAt(s, i) == SubSeq(s, i, i)

\* String.prototype.includes
Includes(s, sub) ==
    \E i \in 0..(Len(s) - Len(sub)) : SubSeq(s, i + 1, i + Len(sub)) = sub

\* String.prototype.startsWith
StartsWith(s, prefix) ==
    /\ Len(prefix) <= Len(s)
    /\ SubSeq(s, 1, Len(prefix)) = prefix

\* String.prototype.endsWith
EndsWith(s, suffix) ==
    /\ Len(suffix) <= Len(s)
    /\ SubSeq(s, Len(s) - Len(suffix) + 1, Len(s)) = suffix

UpperLetters == "ABCDEFGHIJKLMNOPQRSTUVWXYZ"

LowerLetters == "abcdefghijklmnopqrstuvwxyz"

LowerChar(c) ==
    IF \E i \in 1..Len(UpperLetters) : CharAt(UpperLetters, i) = c
    THEN CharAt(LowerLetters, CHOOSE i \in 1..Len(UpperLetters) : CharAt(UpperLetters, i) = c)
    ELSE c

\* String.prototype.toLowerCase (the queries of the model are ASCII)
RECURSIVE ToLowerCase(_)
ToLowerCase(s) ==
    IF s = "" THEN "" ELSE LowerChar(CharAt(s, 1)) \o ToLowerCase(Tail(s))

\* the position of the first line feed of s at or after start, 0 if none
NextLineFeed(s, start) ==
    IF \E i \in start..Len(s) : CharAt(s, i) = "\n"
    THEN CHOOSE i \in start..Len(s) :
            /\ CharAt(s, i) = "\n"
            /\ \A j \in start..(i - 1) : CharAt(s, j) # "\n"
    ELSE 0

\* String.prototype.split("\n"): the pieces of s from position start on
RECURSIVE SplitFrom(_, _)
SplitFrom(s, start) ==
    LET i == NextLineFeed(s, start)
    IN  IF i = 0 THEN <<SubSeq(s, start, Len(s))>>
        ELSE <<SubSeq(s, start, i - 1)>> \o SplitFrom(s, i + 1)

SplitLines(s) == SplitFrom(s, 1)

\* Array.prototype.join
RECURSIVE Join(_, _)
Join(parts, sep) ==
    IF parts = <<>> THEN ""
    ELSE IF Len(parts) = 1 THEN parts[1]
    ELSE parts[1] \o sep \o Join(Tail(parts), sep)

\* Array.prototype.filter, for a set of kept positions
RECURSIVE FilterSeq(_, _)
FilterSeq(s, keep) ==
    IF s = <<>> THEN <<>>
    ELSE (IF s[1] \in keep THEN <<s[1]>> ELSE <<>>) \o FilterSeq(Tail(s), keep)

\* U+000B, the vertical tab: TLA+ has no escape for it, so the string holds
\* the character itself
VerticalTab == ""

\* the characters the regular expression class \s accepts (of those a TLA+
\* string can hold: the non-ASCII spaces of \s cannot be written)
IsSpace(c) == c \in {" ", "\t", "\n", VerticalTab, "\f", "\r"}

Range(s) == {s[n] : n \in 1..Len(s)}

(***************************************************************************)
(* The backing file and the document loader.                               *)
(***************************************************************************)

\* what fs.readFileSync(syntaxFilePath, "utf-8") does on file state f:
\* it returns the text, or throws the system error
readFileSync(f) ==
    IF f.readable
    THEN [threw |-> FALSE, value |-> f.content]
    ELSE [threw |-> TRUE, error |-> "Error: " \o f.err]

LoadFailureText == "Error: Could not load Roc syntax reference file."

\* mutant: the loader without its try/catch
loadSyntaxReferenceNoCatch(f) ==
    LET r == readFileSync(f)
    IN  IF r.threw
        THEN [threw |-> TRUE, error |-> r.error, value |-> "", logged |-> ""]
        ELSE [threw |-> FALSE, value |-> r.value, logged |-> ""]

\* mutant: the loader putting the failure detail into the text it returns
loadSyntaxReferenceWithDetail(f) ==
    LET r == readFileSync(f)
    IN  IF r.threw
        THEN [threw |-> FALSE,
              value |-> "Error: Could not load Roc syntax reference file: " \o r.error,
              logged |-> "Failed to load syntax reference: " \o r.error]
        ELSE [threw |-> FALSE, value |-> r.value, logged |-> ""]

\* mutant: the loader returning the text it read at start-up
loadSyntaxReferenceOnce(f) ==
    [threw |-> FALSE, value |-> "", logged |-> ""]

\* loadSyntaxReference(): value is what it returns, logged what it writes to
\* console.error, threw whether an exception leaves it
loadSyntaxReference(f) ==
    LET r == readFileSync(f)
    IN  IF r.threw
        THEN [threw |-> FALSE,
              value |-> LoadFailureText,
              logged |-> "Failed to load syntax reference: " \o r.error]
        ELSE [threw |-> FALSE, value |-> r.value, logged |-> ""]

(***************************************************************************)
(* The section parser.                                                     *)
(***************************************************************************)

\* each pattern is /^<prefix>\s*<suffix>/ (minSpaces = 0) or /^<prefix>\s+/
\* (minSpaces = 1, empty suffix)
sectionPatterns == <<
    [name |-> "number_operators", prefix |-> "number_operators", minSpaces |-> 0, suffix |-> ":"],
    [name |-> "boolean_operators", prefix |-> "boolean_operators", minSpaces |-> 0, suffix |-> ":"],
    [name |-> "simple_match", prefix |-> "simple_match", minSpaces |-> 0, suffix |-> ":"],
    [name |-> "match_list_patterns", prefix |-> "match_list_patterns", minSpaces |-> 0, suffix |-> ":"],
    [name |-> "match_tag_union_advanced", prefix |-> "match_tag_union_advanced", minSpaces |-> 0, suffix |-> ":"],
    [name |-> "multiline_str", prefix |-> "multiline_str", minSpaces |-> 0, suffix |-> ":"],
    [name |-> "effect_demo", prefix |-> "effect_demo!", minSpaces |-> 0, suffix |-> ":"],
    [name |-> "for_loop", prefix |-> "for_loop", minSpaces |-> 0, suffix |-> "="],
    [name |-> "dbg_keyword", prefix |-> "dbg_keyword", minSpaces |-> 0, suffix |-> "="],
    [name |-> "if_demo", prefix |-> "if_demo", minSpaces |-> 0, suffix |-> ":"],
    [name |-> "tuple_demo", prefix |-> "tuple_demo", minSpaces |-> 0, suffix |-> "="],
    [name |-> "type_var", prefix |-> "type_var", minSpaces |-> 0, suffix |-> ":"],
    [name |-> "destructuring", prefix |-> "destructuring", minSpaces |-> 0, suffix |-> "="],
    [name |-> "record_update_2", prefix |-> "record_update_2", minSpaces |-> 0, suffix |-> ":"],
    [name |-> "number_literals", prefix |-> "number_literals", minSpaces |-> 0, suffix |-> "="],
    [name |-> "opaque_types", prefix |-> "Username", minSpaces |-> 0, suffix |-> "::"],
    [name |-> "nominal_types", prefix |-> "Animal", minSpaces |-> 0, suffix |-> ":="],
    [name |-> "early_return", prefix |-> "early_return", minSpaces |-> 0, suffix |-> "="],
    [name |-> "where_clause", prefix |-> "stringify", minSpaces |-> 0, suffix |-> ":"],
    [name |-> "main", prefix |-> "main!", minSpaces |-> 0, suffix |-> "="],
    [name |-> "imports", prefix |-> "import", minSpaces |-> 1, suffix |-> ""],
    [name |-> "app_header", prefix |-> "app", minSpaces |-> 0, suffix |-> "["]
>>

RECURSIVE LeadingSpaces(_)
LeadingSpaces(s) ==
    IF s # "" /\ IsSpace(CharAt(s, 1)) THEN 1 + LeadingSpaces(Tail(s)) ELSE 0

\* pattern.test(line)
PatternTest(p, line) ==
    /\ StartsWith(line, p.prefix)
    /\ LET rest == SubSeq(line, Len(p.prefix) + 1, Len(line))
           n == LeadingSpaces(rest)
       IN  /\ n >= p.minSpaces
           /\ StartsWith(SubSeq(rest, n + 1, Len(rest)), p.suffix)

\* the inner loop over sectionPatterns with its break: the index of the first
\* pattern, from k on in catalog order, that matches; 0 if none
RECURSIVE FirstPatternFrom(_, _)
FirstPatternFrom(line, k) ==
    IF k > Len(sectionPatterns) THEN 0
    ELSE IF PatternTest(sectionPatterns[k], line) THEN k
    ELSE FirstPatternFrom(line, k + 1)

FirstPattern(line) == FirstPatternFrom(line, 1)

\* sectionPatterns.some((p) => p.pattern.test(line))
SomePattern(line) ==
    \E k \in 1..Len(sectionPatterns) : PatternTest(sectionPatterns[k], line)

\* the section a matching line opens; i is the 0-based index of the line
OpenSection(name, line, i) ==
    [name |-> name, content |-> line, startLine |-> i + 1, endLine |-> i + 1]

\* the open section as it is pushed when the line at 0-based index i matches
CloseSection(cur, i) == [cur EXCEPT !.endLine = i - 1]

\* mutant: the loop body without the test that keeps a header line from being
\* appended to the section it has just opened
ParseLineHeaderTwice(st, line, i) ==
    LET k == FirstPattern(line)
        afterMatch ==
            IF k # 0
            THEN [sections |-> IF st.current # <<>>
                               THEN Append(st.sections, CloseSection(st.current[1], i))
                               ELSE st.sections,
                  current |-> <<OpenSection(sectionPatterns[k].name, line, i)>>]
            ELSE st
    IN  IF afterMatch.current # <<>>
        THEN [afterMatch EXCEPT
                !.current = <<[afterMatch.current[1] EXCEPT
                                 !.content = @ \o "\n" \o line,
                                 !.endLine = i + 1]>>]
        ELSE afterMatch

\* one iteration of the loop over lines: st.sections is the result so far,
\* st.current the open section (a sequence of length 0 or 1)
ParseLine(st, line, i) ==
    LET k == FirstPattern(line)
        afterMatch ==
            IF k # 0
            THEN [sections |-> IF st.current # <<>>
                               THEN Append(st.sections, CloseSection(st.current[1], i))
                               ELSE st.sections,
                  current |-> <<OpenSection(sectionPatterns[k].name, line, i)>>]
            ELSE st
    IN  IF afterMatch.current # <<>> /\ ~SomePattern(line)
        THEN [afterMatch EXCEPT
                !.current = <<[afterMatch.current[1] EXCEPT
                                 !.content = @ \o "\n" \o line,
                                 !.endLine = i + 1]>>]
        ELSE afterMatch

RECURSIVE ParseFrom(_, _, _)
ParseFrom(lines, i, st) ==
    IF i >= Len(lines) THEN st
    ELSE ParseFrom(lines, i + 1, ParseLine(st, lines[i + 1], i))

parseSyntaxSections(content) ==
    LET st == ParseFrom(SplitLines(content), 0, [sections |-> <<>>, current |-> <<>>])
    IN  st.sections \o st.current

(***************************************************************************)
(* The topic table and the topic resolver.                                 *)
(***************************************************************************)

TOPICS == <<
    [name |-> "operators",
     keywords |-> <<"operator", "operators", "+", "-", "*", "/", "==", "!=", "<", ">", "<=", ">=", "and", "or", "not">>,
     description |-> "Arithmetic, comparison, and boolean operators"],
    [name |-> "pattern_matching",
     keywords |-> <<"match", "pattern", "case", "switch">>,
     description |-> "Pattern matching with match expressions"],
    [name |-> "list_patterns",
     keywords |-> <<"list", "array", "spread", "..">>,
     description |-> "List destructuring and pattern matching"],
    [name |-> "tag_unions",
     keywords |-> <<"tag", "union", "variant", "enum", "Ok", "Err", "Try">>,
     description |-> "Tag unions (sum types) and Result/Try types"],
    [name |-> "strings",
     keywords |-> <<"string", "str", "multiline", "interpolation", "unicode">>,
     description |-> "String literals, multiline strings, and interpolation"],
    [name |-> "effects",
     keywords |-> <<"effect", "effectful", "!", "io", "side effect">>,
     description |-> "Effectful functions (marked with !)"],
    [name |-> "loops",
     keywords |-> <<"for", "loop", "iterate", "var", "$">>,
     description |-> "For loops and mutable variables"],
    [name |-> "conditionals",
     keywords |-> <<"if", "else", "conditional", "branch">>,
     description |-> "If/else expressions"],
    [name |-> "tuples",
     keywords |-> <<"tuple", "pair", "triplet">>,
     description |-> "Tuple types and destructuring"],
    [name |-> "records",
     keywords |-> <<"record", "struct", "object", "field", "update">>,
     description |-> "Record types, access, and updates"],
    [name |-> "types",
     keywords |-> <<"type", "annotation", "signature", "where", "constraint">>,
     description |-> "Type annotations and constraints"],
    [name |-> "numbers",
     keywords |-> <<"number", "int", "float", "decimal", "u8", "i64", "f64", "hex", "binary">>,
     description |-> "Numeric types and literals"],
    [name |-> "opaque",
     keywords |-> <<"opaque", "::", "newtype", "wrapper">>,
     description |-> "Opaque types for type-safe wrappers"],
    [name |-> "nominal",
     keywords |-> <<"nominal", ":=", "custom", "method", "is_eq">>,
     description |-> "Nominal types with custom methods"],
    [name |-> "functions",
     keywords |-> <<"function", "lambda", "arrow", "=>", "->", "return">>,
     description |-> "Function definitions and early returns"],
    [name |-> "imports",
     keywords |-> <<"import", "module", "as", "alias">>,
     description |-> "Module imports and aliases"],
    [name |-> "testing",
     keywords |-> <<"test", "expect", "assert">>,
     description |-> "Testing with expect and test blocks"]
>>

TopicNames == {TOPICS[t].name : t \in 1..Len(TOPICS)}

\* the test of one topic against the lowercased query
TopicMatches(t, queryLower) ==
    \/ TOPICS[t].name = queryLower
    \/ \E n \in 1..Len(TOPICS[t].keywords) :
          LET k == TOPICS[t].keywords[n]
          IN  Includes(queryLower, k) \/ Includes(k, queryLower)

\* the loop over Object.entries(TOPICS) with its break: the index of the
\* first topic, from t on in table order, that matches; 0 if none
RECURSIVE MatchedTopicFrom(_, _)
MatchedTopicFrom(queryLower, t) ==
    IF t > Len(TOPICS) THEN 0
    ELSE IF TopicMatches(t, queryLower) THEN t
    ELSE MatchedTopicFrom(queryLower, t + 1)

\* matchedTopic as an index of TOPICS, 0 when it stays null
MatchedTopic(query) == MatchedTopicFrom(ToLowerCase(query), 1)

\* the topic list of the help response
topicList ==
    Join([t \in 1..Len(TOPICS) |->
            "- " \o TOPICS[t].name \o ": " \o TOPICS[t].description], "\n")

(***************************************************************************)
(* The section selector.                                                   *)
(***************************************************************************)

\* sections.find((s) => s.name === name)?.content || ""
FindContent(sections, name) ==
    IF \E n \in 1..Len(sections) : sections[n].name = name
    THEN sections[CHOOSE n \in 1..Len(sections) :
                    /\ sections[n].name = name
                    /\ \A m \in 1..(n - 1) : sections[m].name # name].content
    ELSE ""

UnicodeEscapeExample == "Unicode escape: \"\\u(00A0)\""

ExamplesSeparator == "\n\n---\n\n"

\* the switch on matchedTopic: what is pushed on relevantSections
relevantSections(topic, sections, lines) ==
    CASE topic = "operators" ->
            <<FindContent(sections, "number_operators"),
              FindContent(sections, "boolean_operators")>>
      [] topic = "pattern_matching" -> <<FindContent(sections, "simple_match")>>
      [] topic = "list_patterns" -> <<FindContent(sections, "match_list_patterns")>>
      [] topic = "tag_unions" -> <<FindContent(sections, "match_tag_union_advanced")>>
      [] topic = "strings" ->
            <<FindContent(sections, "multiline_str"), UnicodeEscapeExample>>
      [] topic = "effects" -> <<FindContent(sections, "effect_demo")>>
      [] topic = "loops" -> <<FindContent(sections, "for_loop")>>
      [] topic = "conditionals" -> <<FindContent(sections, "if_demo")>>
      [] topic = "tuples" -> <<FindContent(sections, "tuple_demo")>>
      [] topic = "records" ->
            <<FindContent(sections, "destructuring"),
              FindContent(sections, "record_update_2")>>
      [] topic = "types" ->
            <<FindContent(sections, "type_var"),
              FindContent(sections, "where_clause")>>
      [] topic = "numbers" -> <<FindContent(sections, "number_literals")>>
      [] topic = "opaque" -> <<FindContent(sections, "opaque_types")>>
      [] topic = "nominal" -> <<FindContent(sections, "nominal_types")>>
      [] topic = "functions" -> <<FindContent(sections, "early_return")>>
      [] topic = "imports" ->
            <<Join(FilterSeq(lines, {l \in Range(lines) : StartsWith(l, "import ")}), "\n")>>
      [] topic = "testing" ->
            <<Join(FilterSeq(lines, {l \in Range(lines) : Includes(l, "expect ")}), "\n")>>
      [] OTHER -> <<>>

\* mutant: the join without the filter of the empty contributions
JoinExamplesKeepEmpty(contributions) ==
    Join(contributions, ExamplesSeparator)

\* relevantSections.filter(Boolean).join("\n\n---\n\n")
JoinExamples(contributions) ==
    Join(FilterSeq(contributions, Range(contributions) \ {""}), ExamplesSeparator)

(***************************************************************************)
(* The tool handlers.  A handler's result is the response the server       *)
(* sends; an exception leaving the handler becomes an error response.      *)
(***************************************************************************)

TextContent(text) == <<[type |-> "text", text |-> text]>>

\* the response when an exception leaves a handler
ToolFailure(error) ==
    [isError |-> TRUE, content |-> TextContent(error), structuredContent |-> <<>>]

\* the handler of get_roc_syntax: its response and what it logged
getRocSyntax(f) ==
    LET syntax == loadSyntaxReference(f)
    IN  IF syntax.threw
        THEN [response |-> ToolFailure(syntax.error), logged |-> "", sections |-> <<>>]
        ELSE [response |-> [isError |-> FALSE,
                            content |-> TextContent(syntax.value),
                            structuredContent |-> [syntax |-> syntax.value]],
              logged |-> syntax.logged,
              sections |-> <<>>]

\* mutant: the help response with the catalog in the description too
HelpResponseCatalogTwice(query) ==
    [isError |-> FALSE,
     content |-> TextContent("No exact match for \"" \o query
                             \o "\". Available topics:\n\n" \o topicList),
     structuredContent |-> [topic |-> "help",
                            description |-> topicList,
                            examples |-> topicList]]

\* the response of search_roc_syntax when no topic matched
HelpResponse(query) ==
    [isError |-> FALSE,
     content |-> TextContent("No exact match for \"" \o query
                             \o "\". Available topics:\n\n" \o topicList),
     structuredContent |-> [topic |-> "help",
                            description |-> "Available topics",
                            examples |-> topicList]]

\* U+0060, the grave accent: a TLA+ string holds it only when an apostrophe
\* follows, so it is cut out of such a pair
GraveAccent == SubSeq("`'", 1, 1)

\* the code fence of the display text
CodeFence == GraveAccent \o GraveAccent \o GraveAccent

\* the response of search_roc_syntax for matched topic t
TopicResponse(t, examples) ==
    [isError |-> FALSE,
     content |-> TextContent("## " \o TOPICS[t].name \o "\n\n" \o TOPICS[t].description
                             \o "\n\n### Examples:\n\n" \o CodeFence \o "roc\n"
                             \o examples \o "\n" \o CodeFence),
     structuredContent |-> [topic |-> TOPICS[t].name,
                            description |-> TOPICS[t].description,
                            examples |-> examples]]

\* the handler of search_roc_syntax: its response, what it logged and the
\* section list it parsed
searchRocSyntax(f, query) ==
    LET fullContent == loadSyntaxReference(f)
    IN  IF fullContent.threw
        THEN [response |-> ToolFailure(fullContent.error), logged |-> "", sections |-> <<>>]
        ELSE LET sections == parseSyntaxSections(fullContent.value)
                 t == MatchedTopic(query)
                 lines == SplitLines(fullContent.value)
             IN  [response |->
                    IF t = 0 THEN HelpResponse(query)
                    ELSE TopicResponse(t,
                           JoinExamples(relevantSections(TOPICS[t].name, sections, lines))),
                  logged |-> fullContent.logged,
                  sections |-> sections]

\* the handler of list_roc_topics
listRocTopics ==
    LET topics == [t \in 1..Len(TOPICS) |->
                     [name |-> TOPICS[t].name, description |-> TOPICS[t].description]]
        formatted == Join([t \in 1..Len(topics) |->
                             "- **" \o topics[t].name \o "**: " \o topics[t].description],
                          "\n")
    IN  [isError |-> FALSE,
         content |-> TextContent("# Available Roc Syntax Topics\n\n" \o formatted),
         structuredContent |-> [topics |-> topics]]

(***************************************************************************)
(* The state machine.  file is the backing file as the file system holds   *)
(* it; req and resp are the request in hand and its response (none while   *)
(* the server is idle); log is what the handler wrote to console.error;    *)
(* parsed is the section list the search handler got from                  *)
(* parseSyntaxSections (its local sections).  The handlers make no         *)
(* asynchronous call, so each runs in one step.                            *)
(***************************************************************************)

NoReq == [tool |-> "none", query |-> ""]

NoResp == [isError |-> FALSE, content |-> <<>>, structuredContent |-> <<>>]

\* bounds of the model: the number of lines a document grows to
MaxLines == 3

MaxParseLines == 6

MaxSelectLines == 7

\* a request is taken when the server is idle; its handler runs to completion
GetRocSyntax ==
    /\ req = NoReq
    /\ LET r == getRocSyntax(file)
       IN  /\ resp' = r.response
           /\ log' = r.logged
           /\ parsed' = r.sections
    /\ req' = [tool |-> "get_roc_syntax", query |-> ""]
    /\ UNCHANGED file

SearchRocSyntax(query) ==
    /\ req = NoReq
    /\ LET r == searchRocSyntax(file, query)
       IN  /\ resp' = r.response
           /\ log' = r.logged
           /\ parsed' = r.sections
    /\ req' = [tool |-> "search_roc_syntax", query |-> query]
    /\ UNCHANGED file

ListRocTopics ==
    /\ req = NoReq
    /\ resp' = listRocTopics
    /\ log' = ""
    /\ parsed' = <<>>
    /\ req' = [tool |-> "list_roc_topics", query |-> ""]
    /\ UNCHANGED file

\* the transport sends the response; the server is idle again
Respond ==
    /\ req # NoReq
    /\ req' = NoReq /\ resp' = NoResp /\ log' = "" /\ parsed' = <<>>
    /\ UNCHANGED file

\* the environment appends a line to the file
AppendLine(line, max) ==
    /\ req = NoReq
    /\ file.readable
    /\ file.content = "" \/ Len(SplitLines(file.content)) < max
    /\ file' = [file EXCEPT !.content = IF @ = "" THEN line ELSE @ \o "\n" \o line]
    /\ UNCHANGED <<req, resp, log, parsed>>

\* the environment makes the file unreadable (removed, no permission, ...)
BreakFile(err) ==
    /\ req = NoReq
    /\ file.readable
    /\ file' = [file EXCEPT !.readable = FALSE, !.err = err]
    /\ UNCHANGED <<req, resp, log, parsed>>

\* the environment makes the file readable again
RestoreFile ==
    /\ req = NoReq
    /\ ~file.readable
    /\ file' = [file EXCEPT !.readable = TRUE, !.err = ""]
    /\ UNCHANGED <<req, resp, log, parsed>>

ReadErrors ==
    {"ENOENT: no such file or directory, open 'all_roc_syntax.roc'",
     "EACCES: permission denied, open 'all_roc_syntax.roc'"}

EmptyFile == [readable |-> TRUE, content |-> "", err |-> ""]

\* the lines the documents of the main specification are made of
Lines == {"for_loop = 1", "    x", ""}

\* the queries of the main specification
Queries == {"loops", "for", "Pattern Matching", "zzz", "", "Ok", "records", "testing"}

Init ==
    /\ file = EmptyFile
    /\ req = NoReq
    /\ resp = NoResp
    /\ log = ""
    /\ parsed = <<>>

Next ==
    \/ GetRocSyntax
    \/ \E q \in Queries : SearchRocSyntax(q)
    \/ ListRocTopics
    \/ \E l \in Lines : AppendLine(l, MaxLines)
    \/ \E e \in ReadErrors : BreakFile(e)
    \/ RestoreFile
    \/ Respond

Spec == Init /\ [][Next]_vars

(***************************************************************************)
(* Resolver specification: every topic name, every keyword and a few other *)
(* queries are searched, over a fixed document.                            *)
(***************************************************************************)

SampleFile ==
    [readable |-> TRUE,
     content |-> "import pf.Stdout\n\nfor_loop = 1\n    x\n\nexpect for_loop == 1\n",
     err |-> ""]

KeywordsOf(t) == Range(TOPICS[t].keywords)

AllKeywords == UNION {KeywordsOf(t) : t \in 1..Len(TOPICS)}

OtherQueries ==
    {"", "xyz-no-such-topic", "zzz", "help", "Pattern Matching", "pattern matching",
     "OPERATORS", "Records", "k", "how do I loop", "qqq"}

ResolveQueries == TopicNames \cup AllKeywords \cup OtherQueries

InitResolve ==
    /\ file = SampleFile
    /\ req = NoReq
    /\ resp = NoResp
    /\ log = ""
    /\ parsed = <<>>

NextResolve ==
    \/ \E q \in ResolveQueries : SearchRocSyntax(q)
    \/ \E e \in ReadErrors : BreakFile(e)
    \/ RestoreFile
    \/ Respond

SpecResolve == InitResolve /\ [][NextResolve]_vars

(***************************************************************************)
(* Parser specification: documents of up to MaxParseLines lines, parsed by *)
(* a search request.                                                       *)
(***************************************************************************)

\* the second header separates its name from the colon by a vertical tab
IfDemoHeader == "if_demo" \o VerticalTab \o ": Bool"

ParseLines == {"# note", "for_loop = 1", IfDemoHeader, ""}

NextParse ==
    \/ \E l \in ParseLines : AppendLine(l, MaxParseLines)
    \/ SearchRocSyntax("loops")
    \/ Respond

SpecParse == Init /\ [][NextParse]_vars

(***************************************************************************)
(* Selector specification: the file starts as a short document and grows   *)
(* to MaxSelectLines lines; there is a query for every topic.              *)
(***************************************************************************)

SelectFile ==
    [readable |-> TRUE,
     content |-> "import pf.Stdout\nexpect 1 == 1\nstringify : a -> Str",
     err |-> ""]

SelectLines == {"type_var : a", "multiline_str : Str", "", "---"}

\* one query per topic, each resolving to it, and one that matches no topic
SelectQueries ==
    {"operators", "match", "list", "tag", "strings", "effect", "loop", "if",
     "tuples", "object", "types", "numbers", "opaque", "nominal", "lambda",
     "module", "testing", "zzz"}

InitSelect ==
    /\ file = SelectFile
    /\ req = NoReq
    /\ resp = NoResp
    /\ log = ""
    /\ parsed = <<>>

NextSelect ==
    \/ \E l \in SelectLines : AppendLine(l, MaxSelectLines)
    \/ \E q \in SelectQueries : SearchRocSyntax(q)
    \/ Respond

SpecSelect == InitSelect /\ [][NextSelect]_vars

(***************************************************************************)
(* Properties of the topic resolver (checked under SpecResolve).           *)
(***************************************************************************)

Searched == req.tool = "search_roc_syntax"

\* the topic field of the response in hand
RespTopic == resp.structuredContent.topic

\* no topic of the table matches the query
NoTopicMatches(query) ==
    \A t \in 1..Len(TOPICS) : ~TopicMatches(t, ToLowerCase(query))

\* C1: resolving the name of any topic of the table returns that topic.
\* The code does not do this: a name that holds a keyword of an earlier
\* topic ("records" holds "or") is captured by that topic.
C1_SelfNameResolves ==
    (Searched /\ req.query \in TopicNames) => RespTopic = req.query

\* the topics before t that have k as a keyword or as a substring of their name
EarlierHolders(t, k) ==
    {u \in 1..(t - 1) : k \in KeywordsOf(u) \/ Includes(TOPICS[u].name, k)}

\* C2: resolving a keyword k of topic T returns T, unless an earlier topic
\* has k as a keyword or as a substring of its name, and then the first such
\* topic; never "no match", never a topic after T.
C2_KeywordResolves ==
    (Searched /\ req.query \in AllKeywords) =>
        \A t \in 1..Len(TOPICS) :
            req.query \in KeywordsOf(t) =>
                LET earlier == EarlierHolders(t, req.query)
                    first == CHOOSE u \in earlier : \A v \in earlier : u <= v
                IN  /\ RespTopic # "help"
                    /\ RespTopic \in {TOPICS[u].name : u \in 1..t}
                    /\ earlier = {} => RespTopic = TOPICS[t].name
                    /\ earlier # {} => RespTopic = TOPICS[first].name

\* C3: the empty query and "xyz-no-such-topic" resolve to no topic.  The code
\* resolves both to operators.
C3_BothAreNoMatch ==
    (Searched /\ req.query \in {"", "xyz-no-such-topic"}) => RespTopic = "help"

\* what the code does on the two queries of C3: both resolve to the first
\* topic, operators, because the empty string is contained in every keyword
\* and "xyz-no-such-topic" contains the keyword "-"
BothResolveToOperators ==
    (Searched /\ req.query \in {"", "xyz-no-such-topic"}) =>
        /\ RespTopic = "operators"
        /\ TopicMatches(1, req.query)
        /\ req.query = "" => \A k \in AllKeywords : Includes(k, req.query)
        /\ req.query # "" => Includes(req.query, "-") /\ "-" \in KeywordsOf(1)

\* the lines of the topic catalog: every topic's name and description, in
\* table order
CatalogLines ==
    [t \in 1..Len(TOPICS) |-> "- " \o TOPICS[t].name \o ": " \o TOPICS[t].description]

\* C4 as stated: on a query that matches no topic the topic field is "help"
\* and both examples and description hold the whole topic catalog; when a
\* topic matches, the topic field is its name, never "help".
C4_HelpHoldsCatalogTwice ==
    Searched =>
        /\ NoTopicMatches(req.query) =>
              /\ ~resp.isError
              /\ RespTopic = "help"
              /\ Includes(resp.structuredContent.examples, Join(CatalogLines, "\n"))
              /\ Includes(resp.structuredContent.description, Join(CatalogLines, "\n"))
        /\ ~NoTopicMatches(req.query) => RespTopic \in TopicNames \ {"help"}

\* C4 (amended): on a query that matches no topic the response is a success
\* whose topic field is "help", whose examples field is the whole topic
\* catalog (one line per topic, in table order) and whose description field
\* is the fixed label "Available topics"; the display text holds the query
\* and the catalog.  When a topic matches, the topic field is the name of a
\* table entry, never "help".
C4_HelpOnlyOnMiss ==
    Searched =>
        /\ ~resp.isError
        /\ NoTopicMatches(req.query) =>
              /\ RespTopic = "help"
              /\ SplitLines(resp.structuredContent.examples) = CatalogLines
              /\ resp.structuredContent.description = "Available topics"
              /\ Includes(resp.content[1].text, "\"" \o req.query \o "\"")
              /\ EndsWith(resp.content[1].text, resp.structuredContent.examples)
        /\ ~NoTopicMatches(req.query) =>
              /\ RespTopic \in TopicNames \ {"help"}
              /\ \E t \in 1..Len(TOPICS) :
                    /\ TOPICS[t].name = RespTopic
                    /\ TOPICS[t].description = resp.structuredContent.description

C4_Witness ==
    /\ Searched
    /\ req.query = "zzz"
    /\ RespTopic = "help"
    /\ Len(SplitLines(resp.structuredContent.examples)) = Len(TOPICS)

(***************************************************************************)
(* Properties of the loader and of the handlers as a whole (checked under  *)
(* Spec).                                                                  *)
(***************************************************************************)

Fetched == req.tool = "get_roc_syntax"

\* the file as a readable file whose text is the loader's failure text
FailureTextFile == [readable |-> TRUE, content |-> LoadFailureText, err |-> ""]

\* C5 as stated: on a read failure the loader returns, without raising, a
\* text that embeds the failure detail.
C5_SentinelEmbedsDetail ==
    (Fetched /\ ~file.readable) =>
        /\ ~resp.isError
        /\ Includes(resp.structuredContent.syntax, file.err)

\* C5 (amended): on a read failure the loader does not raise; it returns the
\* fixed text "Error: Could not load Roc syntax reference file.", the same
\* for every failure, and writes the failure detail to the error log only;
\* the handler goes on with that text as the document: get_roc_syntax
\* returns it, search_roc_syntax answers as for a file holding it, finding
\* no section.
C5_FixedSentinelOnReadFailure ==
    ((Fetched \/ Searched) /\ ~file.readable) =>
        /\ ~resp.isError
        /\ log = "Failed to load syntax reference: Error: " \o file.err
        /\ ~Includes(resp.content[1].text, file.err)
        /\ Fetched =>
              /\ resp.structuredContent.syntax = LoadFailureText
              /\ resp.content[1].text = LoadFailureText
        /\ Searched =>
              /\ resp = searchRocSyntax(FailureTextFile, req.query).response
              /\ parsed = <<>>
              /\ ~Includes(resp.structuredContent.examples, file.err)

C5_Witness ==
    /\ Fetched
    /\ ~file.readable
    /\ file.err \in ReadErrors
    /\ resp.structuredContent.syntax = LoadFailureText
    /\ Includes(log, file.err)

\* C6: every search_roc_syntax request ends in a successful response with
\* the three fields topic, description and examples, whatever the query and
\* whether or not the file can be read.
C6_SearchAlwaysSucceeds ==
    Searched =>
        /\ ~resp.isError
        /\ DOMAIN resp.structuredContent = {"topic", "description", "examples"}
        /\ Len(resp.content) = 1
        /\ resp.content[1].type = "text"

\* a read failure, and a resolved topic whose section is missing
C6_Witness ==
    /\ Searched
    /\ ~file.readable
    /\ req.query = "loops"
    /\ ~resp.isError
    /\ RespTopic = "loops"
    /\ resp.structuredContent.examples = ""

\* C7: each get_roc_syntax response, display text and structured field
\* alike, is the content the file has at the time of the request, or the
\* failure text when the read fails, whatever requests and changes of the
\* file came before.
C7_GetReturnsCurrentFile ==
    Fetched =>
        /\ ~resp.isError
        /\ resp.structuredContent.syntax =
              (IF file.readable THEN file.content ELSE LoadFailureText)
        /\ resp.content[1].text = resp.structuredContent.syntax

\* the file was changed three times before the request
C7_Witness ==
    /\ Fetched
    /\ file.readable
    /\ file.content = "for_loop = 1\n    x\n"
    /\ resp.structuredContent.syntax = "for_loop = 1\n    x\n"

(***************************************************************************)
(* Properties of the section parser (checked under SpecParse).             *)
(***************************************************************************)

\* the text the handler in hand loaded
DocText == IF file.readable THEN file.content ELSE LoadFailureText

\* the 1-based numbers of the lines that match some rule of the catalog
HeaderLines(lines) == {n \in 1..Len(lines) : SomePattern(lines[n])}

\* the n-th of the header lines H in document order; past the last one, the
\* line after the end of the document
NthHeader(lines, H, n) ==
    IF n > Cardinality(H) THEN Len(lines) + 1
    ELSE CHOOSE h \in H : Cardinality({g \in H : g < h}) = n - 1

\* the name of the first rule, in catalog order, that matches the line
FirstRuleName(line) ==
    sectionPatterns[CHOOSE k \in 1..Len(sectionPatterns) :
                        /\ PatternTest(sectionPatterns[k], line)
                        /\ \A j \in 1..(k - 1) : ~PatternTest(sectionPatterns[j], line)].name

\* C8: parseSyntaxSections returns one section per line that matches a rule,
\* in document order, named after the first rule that matches the line; its
\* content is the header line and the lines that follow up to the next
\* matching line, joined by line feeds; the lines before the first matching
\* line are in no section.
C8_SectionsFollowHeaders ==
    Searched =>
        LET lines == SplitLines(DocText)
            H == HeaderLines(lines)
        IN  /\ Len(parsed) = Cardinality(H)
            /\ \A n \in 1..Len(parsed) :
                  LET h == NthHeader(lines, H, n)
                      next == NthHeader(lines, H, n + 1)
                  IN  /\ parsed[n].name = FirstRuleName(lines[h])
                      /\ parsed[n].startLine = h
                      /\ parsed[n].content = Join(SubSeq(lines, h, next - 1), "\n")

\* the example of the claim: junk, a header, two lines, a header, one line
C8_Witness ==
    /\ Searched
    /\ file.content = "# note\nfor_loop = 1\n# note\n\n" \o IfDemoHeader \o "\n# note"
    /\ Len(parsed) = 2
    /\ parsed[1].name = "for_loop"
    /\ parsed[1].content = "for_loop = 1\n# note\n"
    /\ parsed[2].name = "if_demo"
    /\ parsed[2].content = IfDemoHeader \o "\n# note"

\* C9: in every section startLine <= endLine and the lines startLine..endLine
\* are the lines of its content; a section closed by a following header ends
\* on the line before that header, so the ranges do not overlap and
\* startLine increases.  The code gives a section closed by a following
\* header endLine = i - 1 for the header's 0-based index i, one less than
\* the number of the line before the header.
C9_LineRangesCoverContent ==
    Searched =>
        LET lines == SplitLines(DocText)
        IN  \A n \in 1..Len(parsed) :
                /\ parsed[n].startLine <= parsed[n].endLine
                /\ parsed[n].endLine <= Len(lines)
                /\ parsed[n].content =
                      Join(SubSeq(lines, parsed[n].startLine, parsed[n].endLine), "\n")
                /\ n < Len(parsed) =>
                      /\ parsed[n].endLine = parsed[n + 1].startLine - 1
                      /\ parsed[n].startLine < parsed[n + 1].startLine

\* what the code does: the last section has the range of its content; a
\* section closed by a following header ends two lines before that header
LineRangesOfTheCode ==
    Searched =>
        LET lines == SplitLines(DocText)
            H == HeaderLines(lines)
        IN  \A n \in 1..Len(parsed) :
                /\ parsed[n].startLine = NthHeader(lines, H, n)
                /\ parsed[n].endLine =
                      IF n < Len(parsed) THEN NthHeader(lines, H, n + 1) - 2
                      ELSE Len(lines)

(***************************************************************************)
(* Properties of the section selector (checked under SpecSelect).          *)
(***************************************************************************)

\* the section names each topic is mapped to, in mapping order
MappedSections(topic) ==
    CASE topic = "operators" -> <<"number_operators", "boolean_operators">>
      [] topic = "pattern_matching" -> <<"simple_match">>
      [] topic = "list_patterns" -> <<"match_list_patterns">>
      [] topic = "tag_unions" -> <<"match_tag_union_advanced">>
      [] topic = "strings" -> <<"multiline_str">>
      [] topic = "effects" -> <<"effect_demo">>
      [] topic = "loops" -> <<"for_loop">>
      [] topic = "conditionals" -> <<"if_demo">>
      [] topic = "tuples" -> <<"tuple_demo">>
      [] topic = "records" -> <<"destructuring", "record_update_2">>
      [] topic = "types" -> <<"type_var", "where_clause">>
      [] topic = "numbers" -> <<"number_literals">>
      [] topic = "opaque" -> <<"opaque_types">>
      [] topic = "nominal" -> <<"nominal_types">>
      [] topic = "functions" -> <<"early_return">>
      [] OTHER -> <<>>

\* the content of the first parsed section of that name, "" if there is none
FirstSectionContent(name) ==
    LET at == {n \in 1..Len(parsed) : parsed[n].name = name}
    IN  IF at = {} THEN ""
        ELSE parsed[CHOOSE n \in at : \A m \in at : n <= m].content

IsImportLine(l) == StartsWith(l, "import ")

IsExpectLine(l) == Includes(l, "expect ")

\* the contributions of a topic, in mapping order
Contributions(topic, lines) ==
    [n \in 1..Len(MappedSections(topic)) |-> FirstSectionContent(MappedSections(topic)[n])]
    \o (IF topic = "strings" THEN <<UnicodeEscapeExample>> ELSE <<>>)
    \o (IF topic = "imports" THEN <<Join(SelectSeq(lines, IsImportLine), "\n")>> ELSE <<>>)
    \o (IF topic = "testing" THEN <<Join(SelectSeq(lines, IsExpectLine), "\n")>> ELSE <<>>)

NonEmpty(c) == c # ""

\* at most two contributions, joined by the separator
Separated(c) ==
    CASE Len(c) = 0 -> ""
      [] Len(c) = 1 -> c[1]
      [] Len(c) = 2 -> c[1] \o ExamplesSeparator \o c[2]

\* examples is the non-empty contributions of the topic joined by the separator
ExamplesAreContributions ==
    LET c == SelectSeq(Contributions(RespTopic, SplitLines(DocText)), NonEmpty)
    IN  /\ Len(c) <= 2
        /\ resp.structuredContent.examples = Separated(c)
        /\ RespTopic = "strings" =>
              EndsWith(resp.structuredContent.examples, UnicodeEscapeExample)

\* C10 as stated: examples is the non-empty contributions of the topic, in
\* mapping order, joined by the separator; it never begins or ends with the
\* separator and never holds two adjacent separators.
C10_NoDanglingSeparator ==
    (Searched /\ RespTopic # "help") =>
        /\ ExamplesAreContributions
        /\ ~StartsWith(resp.structuredContent.examples, ExamplesSeparator)
        /\ ~EndsWith(resp.structuredContent.examples, ExamplesSeparator)
        /\ ~Includes(resp.structuredContent.examples,
                     ExamplesSeparator \o ExamplesSeparator)

\* C10 (amended): examples is the non-empty contributions of the topic, in
\* mapping order, joined by the separator: a mapped section name that is
\* absent contributes nothing, one present several times contributes its
\* first section, the strings topic always ends with its literal, and
\* examples is empty when every contribution is.  examples never begins with
\* the separator; it ends with the separator or holds two adjacent
\* separators only when the text of the document itself holds the separator.
C10_SeparatorOnlyBetweenContributions ==
    (Searched /\ RespTopic # "help") =>
        /\ ExamplesAreContributions
        /\ ~StartsWith(resp.structuredContent.examples, ExamplesSeparator)
        /\ ~Includes(DocText, ExamplesSeparator) =>
              /\ ~EndsWith(resp.structuredContent.examples, ExamplesSeparator)
              /\ ~Includes(resp.structuredContent.examples,
                           ExamplesSeparator \o ExamplesSeparator)

\* both sections of the types topic, in mapping order (the reverse of their
\* order in the document), the first of two type_var sections
C10_Witness ==
    /\ Searched
    /\ RespTopic = "types"
    /\ Len(parsed) = 4
    /\ parsed[2].name = "where_clause"
    /\ parsed[3].name = "type_var"
    /\ parsed[4].name = "type_var"
    /\ parsed[3].content # parsed[4].content
    /\ resp.structuredContent.examples =
          parsed[3].content \o ExamplesSeparator \o parsed[2].content

====
